---- MODULE Spec2Model ----
(***************************************************************************)
(* Model of the Nexus block parser (package parser): Parser.parse and the  *)
(* routines it calls.  A line is a sequence of one-character strings, a    *)
(* file is a sequence of lines.  The file is loaded before parsing starts, *)
(* so Init holds the loaded lines and the freshly constructed cursor.      *)
(***************************************************************************)
EXTENDS Integers, Sequences, FiniteSets, TLC

(***************************************************************************)
(* Bounds of the explored inputs.                                          *)
(***************************************************************************)
MaxBody == 2
MaxTpl == 3
MaxValueLen == 3
MaxTrail == 2

(***************************************************************************)
(* Characters.                                                             *)
(***************************************************************************)
Lower == {"a","b","c","d","e","f","g","h","i","j","k","l","m",
          "n","o","p","q","r","s","t","u","v","w","x","y","z"}
Upper == {"A","B","C","D","E","F","G","H","I","J","K","L","M",
          "N","O","P","Q","R","S","T","U","V","W","X","Y","Z"}
Letter == Lower \cup Upper
Digit == {"0","1","2","3","4","5","6","7","8","9"}
Space == {" ", "\t"}

(***************************************************************************)
(* The string functions of the Go library the parser uses.                 *)
(***************************************************************************)
\* The two trims are functions of the string, so that the string is
\* evaluated once however deep the recursion goes.
TrimLeftOf[s \in Seq(STRING)] ==
    IF s = <<>> THEN s
    ELSE IF Head(s) \in Space THEN TrimLeftOf[Tail(s)] ELSE s

TrimLeft(s) == TrimLeftOf[s]

TrimRightOf[s \in Seq(STRING)] ==
    IF s = <<>> THEN s
    ELSE IF s[Len(s)] \in Space THEN TrimRightOf[SubSeq(s, 1, Len(s) - 1)] ELSE s

TrimRight(s) == TrimRightOf[s]

TrimSpace(s) == TrimRight(TrimLeft(s))

HasPrefix(s, p) == Len(s) >= Len(p) /\ SubSeq(s, 1, Len(p)) = p

HasSuffix(s, p) == Len(s) >= Len(p) /\ SubSeq(s, Len(s) - Len(p) + 1, Len(s)) = p

TrimPrefix(s, p) == IF HasPrefix(s, p) THEN SubSeq(s, Len(p) + 1, Len(s)) ELSE s

TrimSuffix(s, p) == IF HasSuffix(s, p) THEN SubSeq(s, 1, Len(s) - Len(p)) ELSE s

\* strings.Index for a one-character separator: 0-based position of the
\* first occurrence, -1 when there is none
RECURSIVE IndexFrom(_, _, _)
IndexFrom(s, c, i) ==
    IF i > Len(s) THEN -1
    ELSE IF s[i] = c THEN i - 1 ELSE IndexFrom(s, c, i + 1)

Index(s, c) == IndexFrom(s, c, 1)

Count(s, c) == Cardinality({i \in 1..Len(s) : s[i] = c})

\* strings.Fields: the maximal runs of non-space characters, in order
RECURSIVE FieldsFrom(_, _, _)
FieldsFrom(s, cur, acc) ==
    IF s = <<>> THEN (IF cur = <<>> THEN acc ELSE Append(acc, cur))
    ELSE IF Head(s) \in Space
         THEN FieldsFrom(Tail(s), <<>>, IF cur = <<>> THEN acc ELSE Append(acc, cur))
         ELSE FieldsFrom(Tail(s), Append(cur, Head(s)), acc)

Fields(s) == FieldsFrom(s, <<>>, <<>>)

(***************************************************************************)
(* Constants of the parser.                                                *)
(***************************************************************************)
KeywordModule == <<"m","o","d","u","l","e">>
KeywordState == <<"s","t","a","t","e">>
KeywordAction == <<"a","c","t","i","o","n">>
KeywordView == <<"v","i","e","w">>
KeywordTemplate == <<"t","e","m","p","l","a","t","e">>
BlockStart == <<"{">>
BlockEnd == <<"}">>
SP == <<" ">>

(***************************************************************************)
(* Validators.                                                             *)
(***************************************************************************)
\* variant: the first character may be a digit
identifierRegex_DigitStart(s) ==
    /\ Len(s) >= 1
    /\ \A i \in 1..Len(s) : s[i] \in Letter \cup Digit \cup {"_"}

identifierRegex(s) ==
    /\ Len(s) >= 1
    /\ s[1] \in Letter \cup {"_"}
    /\ \A i \in 2..Len(s) : s[i] \in Letter \cup Digit \cup {"_"}

moduleNameRegex(s) ==
    /\ Len(s) >= 1
    /\ s[1] \in Letter
    /\ \A i \in 2..Len(s) : s[i] \in Letter \cup Digit \cup {"_"}

isValidIdentifier(name) == identifierRegex(name)

\* variant: module names are checked with the identifier grammar
isValidModuleName_Identifier(name) == identifierRegex(name)

isValidModuleName(name) == moduleNameRegex(name)

\* variant: the two quotes need not be of the same kind
parseStringValue_AnyQuotes(value) ==
    IF /\ Len(value) >= 2
       /\ value[1] \in {"\"", "'"}
       /\ value[Len(value)] \in {"\"", "'"}
    THEN SubSeq(value, 2, Len(value) - 1)
    ELSE value

\* One layer of matching quotes is removed; the numeric and boolean tests
\* that follow in the code all return the value as it is.
parseStringValue(value) ==
    IF /\ Len(value) >= 2
       /\ \/ (HasPrefix(value, <<"\"">>) /\ HasSuffix(value, <<"\"">>))
          \/ (HasPrefix(value, <<"'">>) /\ HasSuffix(value, <<"'">>))
    THEN SubSeq(value, 2, Len(value) - 1)
    ELSE value

(***************************************************************************)
(* Outcomes of the element parsers: either a value to append to the module *)
(* or the message and context handed to newError.                          *)
(***************************************************************************)
Ok(v) == [ok |-> TRUE, value |-> <<v>>, message |-> "", context |-> <<>>]

Fail(msg, ctx) == [ok |-> FALSE, value |-> <<>>, message |-> msg, context |-> ctx]

MsgEmptyFile == "file is empty"
MsgNoHeaderLine == "expected module declaration"
MsgEmptyModuleName == "empty module name"
MsgInvalidModuleName == "invalid module name: must start with letter and contain only letters, numbers, and underscores"
MsgExpectedHeader == "expected module declaration with opening brace: 'module Name {'"
MsgUnclosedBlock == "unclosed module block"
MsgUnexpectedToken == "unexpected token - expected 'state', 'action', 'view', or 'template'"
MsgMissingColon == "invalid state declaration: missing colon"
MsgInvalidStateName == "invalid state variable name"
MsgMissingType == "missing type in state declaration"
MsgMissingActionName == "missing action name"
MsgInvalidActionName == "invalid action name"
MsgMissingViewName == "missing view name"
MsgInvalidViewName == "invalid view name"
MsgExpectedBrace == "expected opening brace after template"
MsgUnclosedTemplate == "unclosed template block"

\* variant: the trailing ` {` is not required
parseModuleDeclaration_NoBrace(cur) ==
    LET trimmed == TrimSpace(cur)
        content == TrimSpace(SubSeq(trimmed, Len(KeywordModule) + 1, Len(trimmed)))
        moduleName == TrimSpace(TrimSuffix(content, BlockStart))
    IN  IF HasPrefix(trimmed, KeywordModule \o SP)
        THEN IF moduleName = <<>> THEN Fail(MsgEmptyModuleName, trimmed)
             ELSE IF ~isValidModuleName(moduleName)
                  THEN Fail(MsgInvalidModuleName, moduleName)
                  ELSE Ok(moduleName)
        ELSE Fail(MsgExpectedHeader, trimmed)

\* parseModuleDeclaration on the current line: the module name or an error
parseModuleDeclaration(cur) ==
    LET trimmed == TrimSpace(cur)
        content == TrimSpace(SubSeq(trimmed, Len(KeywordModule) + 1, Len(trimmed)))
        moduleName == TrimSpace(TrimSuffix(content, BlockStart))
    IN  IF HasPrefix(trimmed, KeywordModule \o SP) /\ HasSuffix(trimmed, SP \o BlockStart)
        THEN IF moduleName = <<>> THEN Fail(MsgEmptyModuleName, trimmed)
             ELSE IF ~isValidModuleName(moduleName)
                  THEN Fail(MsgInvalidModuleName, moduleName)
                  ELSE Ok(moduleName)
        ELSE Fail(MsgExpectedHeader, trimmed)

\* variant: the value is stored as written, quotes included
parseState_RawValue(cur) ==
    LET line == TrimSpace(cur)
        stateLine == TrimSpace(TrimPrefix(line, KeywordState \o SP))
        colonIndex == Index(stateLine, ":")
        name == TrimSpace(SubSeq(stateLine, 1, colonIndex))
        remainder == TrimSpace(SubSeq(stateLine, colonIndex + 2, Len(stateLine)))
        equalIndex == Index(remainder, "=")
        typ == IF equalIndex # -1 THEN TrimSpace(SubSeq(remainder, 1, equalIndex))
               ELSE remainder
        value == IF equalIndex # -1
                 THEN TrimSpace(SubSeq(remainder, equalIndex + 2, Len(remainder)))
                 ELSE <<>>
    IN  IF colonIndex = -1 THEN Fail(MsgMissingColon, line)
        ELSE IF ~isValidIdentifier(name) THEN Fail(MsgInvalidStateName, name)
        ELSE IF typ = <<>> THEN Fail(MsgMissingType, line)
        ELSE Ok([Name |-> name, Type |-> typ, Value |-> value])

\* parseState on the current line: the Property to append or an error
parseState(cur) ==
    LET line == TrimSpace(cur)
        stateLine == TrimSpace(TrimPrefix(line, KeywordState \o SP))
        colonIndex == Index(stateLine, ":")
        name == TrimSpace(SubSeq(stateLine, 1, colonIndex))
        remainder == TrimSpace(SubSeq(stateLine, colonIndex + 2, Len(stateLine)))
        equalIndex == Index(remainder, "=")
        typ == IF equalIndex # -1 THEN TrimSpace(SubSeq(remainder, 1, equalIndex))
               ELSE remainder
        value == IF equalIndex # -1
                 THEN parseStringValue(TrimSpace(SubSeq(remainder, equalIndex + 2, Len(remainder))))
                 ELSE <<>>
    IN  IF colonIndex = -1 THEN Fail(MsgMissingColon, line)
        ELSE IF ~isValidIdentifier(name) THEN Fail(MsgInvalidStateName, name)
        ELSE IF typ = <<>> THEN Fail(MsgMissingType, line)
        ELSE Ok([Name |-> name, Type |-> typ, Value |-> value])

\* parseAction on the current line: the Action to append or an error
parseAction(cur) ==
    LET line == TrimSpace(cur)
        actionLine == TrimSpace(TrimPrefix(line, KeywordAction \o SP))
        parts == Fields(actionLine)
    IN  IF Len(parts) = 0 THEN Fail(MsgMissingActionName, line)
        ELSE IF ~isValidIdentifier(parts[1]) THEN Fail(MsgInvalidActionName, parts[1])
        ELSE Ok([Name |-> parts[1], Parameters |-> <<>>])

\* variant: an invalid view name is reported with the line as context
parseView_LineContext(cur) ==
    LET line == TrimSpace(cur)
        viewName == TrimSpace(TrimPrefix(line, KeywordView \o SP))
    IN  IF viewName = <<>> THEN Fail(MsgMissingViewName, line)
        ELSE IF ~isValidIdentifier(viewName) THEN Fail(MsgInvalidViewName, line)
        ELSE Ok([Name |-> viewName, Content |-> <<>>])

\* parseView on the current line: the View to append or an error
parseView(cur) ==
    LET line == TrimSpace(cur)
        viewName == TrimSpace(TrimPrefix(line, KeywordView \o SP))
    IN  IF viewName = <<>> THEN Fail(MsgMissingViewName, line)
        ELSE IF ~isValidIdentifier(viewName) THEN Fail(MsgInvalidViewName, viewName)
        ELSE Ok([Name |-> viewName, Content |-> <<>>])

\* variant: the keywords are matched without the space that must follow
parseModuleElement_NoSpace(cur) ==
    LET line == TrimSpace(cur)
    IN  IF line = <<>> \/ HasPrefix(line, <<"/", "/">>) THEN "skip"
        ELSE IF line = BlockEnd THEN "close"
        ELSE IF HasPrefix(line, KeywordState) THEN "state"
        ELSE IF HasPrefix(line, KeywordAction) THEN "action"
        ELSE IF HasPrefix(line, KeywordView) THEN "view"
        ELSE IF HasPrefix(line, KeywordTemplate \o SP \o BlockStart) THEN "template"
        ELSE "unexpected"

\* variant: only blank lines are skipped, comments are not recognised
parseModuleElement_NoComments(cur) ==
    LET line == TrimSpace(cur)
    IN  IF line = <<>> THEN "skip"
        ELSE IF line = BlockEnd THEN "close"
        ELSE IF HasPrefix(line, KeywordState \o SP) THEN "state"
        ELSE IF HasPrefix(line, KeywordAction \o SP) THEN "action"
        ELSE IF HasPrefix(line, KeywordView \o SP) THEN "view"
        ELSE IF HasPrefix(line, KeywordTemplate \o SP \o BlockStart) THEN "template"
        ELSE "unexpected"

\* the branch parseModuleElement takes on the current line
parseModuleElement(cur) ==
    LET line == TrimSpace(cur)
    IN  IF line = <<>> \/ HasPrefix(line, <<"/", "/">>) THEN "skip"
        ELSE IF line = BlockEnd THEN "close"
        ELSE IF HasPrefix(line, KeywordState \o SP) THEN "state"
        ELSE IF HasPrefix(line, KeywordAction \o SP) THEN "action"
        ELSE IF HasPrefix(line, KeywordView \o SP) THEN "view"
        ELSE IF HasPrefix(line, KeywordTemplate \o SP \o BlockStart) THEN "template"
        ELSE "unexpected"

\* the template depth after one line of the template loop
templateDepthAfter(depth, cur) == depth + Count(cur, "{") - Count(cur, "}")

(***************************************************************************)
(* The input files explored.                                               *)
(***************************************************************************)
\* first lines: well-formed and malformed module headers
HeaderPool == {
    <<"m","o","d","u","l","e"," ","X"," ","{">>,
    <<"m","o","d","u","l","e"," "," ","X"," ","{">>,
    <<" "," ","m","o","d","u","l","e"," ","A","p","p","_","1"," ","{"," ">>,
    <<"m","o","d","u","l","e"," ","X">>,
    <<"m","o","d","u","l","e"," ","{">>,
    <<"m","o","d","u","l","e"," "," ","{">>,
    <<"m","o","d","u","l","e"," ","1","X"," ","{">>,
    <<"m","o","d","u","l","e"," ","_","X"," ","{">>,
    <<>>,
    <<"/","/"," ","c">>,
    <<"s","t","a","t","e"," ","x",":"," ","T">>,
    <<"m","o","d","u","l","e"," ","X","{">>,
    <<"m","o","d","u","l","e"," ","X"," ","Y"," ","{">>,
    <<"m","o","d","u","l","e","X"," ","{">>,
    <<"}">>,
    <<"m","o","d","u","l","e","\t","X"," ","{">>
}

\* body lines: blanks, comments, closing braces, declarations, template openers, others
DeclPool == {
    <<>>,
    <<" ","\t">>,
    <<"/","/"," ","c">>,
    <<" "," ","/","/">>,
    <<"}">>,
    <<" ","}"," ">>,
    <<"s","t","a","t","e"," ","x",":"," ","T">>,
    <<"s","t","a","t","e"," ","x",":"," ","T"," ","="," ","1">>,
    <<"s","t","a","t","e"," ","x",":","T","=","\"","a","\"">>,
    <<" "," ","s","t","a","t","e"," ","_","y"," ",":"," ","T"," ","="," ","'","a">>,
    <<"s","t","a","t","e"," ","1","x",":"," ","T">>,
    <<"s","t","a","t","e"," ","a","-","b",":"," ","T">>,
    <<"s","t","a","t","e"," ","x">>,
    <<"s","t","a","t","e"," ","1","x">>,
    <<"s","t","a","t","e"," ","x",":">>,
    <<"s","t","a","t","e"," ","x",":"," ","="," ","1">>,
    <<"s","t","a","t","e"," ",":"," ","T">>,
    <<"s","t","a","t","e"," ","x",":"," ","T"," ","="," ","a","=","b">>,
    <<"s","t","a","t","e"," ","x",":"," ","T",":"," ","U">>,
    <<"s","t","a","t","e">>,
    <<"a","c","t","i","o","n"," ","g","o">>,
    <<"a","c","t","i","o","n"," ","g","o"," ","a"," ","b">>,
    <<"a","c","t","i","o","n"," "," ","g","o">>,
    <<"a","c","t","i","o","n"," ","1","g","o">>,
    <<"a","c","t","i","o","n"," ","g","-","o"," ","x">>,
    <<"a","c","t","i","o","n">>,
    <<"v","i","e","w"," ","V">>,
    <<" "," ","v","i","e","w"," ","_","v"," ">>,
    <<"v","i","e","w"," ","1","V">>,
    <<"v","i","e","w"," ","V"," ","W">>,
    <<"v","i","e","w">>,
    <<"t","e","m","p","l","a","t","e"," ","{">>,
    <<"t","e","m","p","l","a","t","e">>,
    <<"t","e","m","p","l","a","t","e"," ","x">>,
    <<"t","e","m","p","l","a","t","e"," ","{","x">>,
    <<"f","o","o"," ","b","a","r">>,
    <<" "," ","f","o","o"," ">>,
    <<"s","t","a","t","e","x",":"," ","T">>,
    <<"}","}">>
}

\* lines that follow a template opener
TplPool == {
    <<"<","d",">","{","x","}","<","/","d",">">>,
    <<"}">>,
    <<"}","}">>,
    <<"{">>,
    <<" ","x"," ">>,
    <<"s","t","a","t","e"," ","x",":"," ","T">>,
    <<" ","}"," ">>
}

\* template opening lines
OpenerPool == {
    <<"t","e","m","p","l","a","t","e"," ","{">>,
    <<" ","t","e","m","p","l","a","t","e"," ","{","x"," ","{">>
}

GoodHeader == <<"m","o","d","u","l","e"," ","X"," ","{">>

CloseLine == <<"}">>

ViewLine == <<"v","i","e","w"," ","V">>

StateLine == <<"s","t","a","t","e"," ","x",":"," ","T">>

ActionLine == <<"a","c","t","i","o","n"," ","g","o">>

OpenerLine == <<"t","e","m","p","l","a","t","e"," ","{">>

Scenario1 == <<
    <<"m","o","d","u","l","e"," ","A","p","p"," ","{">>,
    <<"s","t","a","t","e"," ","c","o","u","n","t",":"," ","I","n","t"," ","="," ","0">>,
    <<"a","c","t","i","o","n"," ","l","o","g","i","n">>,
    <<"v","i","e","w"," ","H","o","m","e">>,
    <<"}">>
>>

Scenario2 == <<
    <<"s","t","a","t","e"," ","x",":"," ","I","n","t">>
>>

Scenario3 == <<
    <<"m","o","d","u","l","e"," ","X"," ","{">>,
    <<"t","e","m","p","l","a","t","e"," ","{">>,
    <<"<","d","i","v",">","{","x","}","<","/","d","i","v",">">>,
    <<"}">>,
    <<"}">>
>>

Scenario4 == <<
    <<"m","o","d","u","l","e"," ","X"," ","{">>
>>

Scenario5 == <<
    <<"m","o","d","u","l","e"," ","X"," ","{">>,
    <<"f","o","o"," ","b","a","r">>,
    <<"}">>
>>


\* all sequences over S of length 0..n
SeqUpTo(S, n) == UNION {[1..k -> S] : k \in 0..n}

HeaderTails == {<<>>, <<CloseLine>>, <<StateLine, CloseLine>>}

\* what follows a template block: nothing, a view and the end of the module,
\* or a second template block and the end of the module
TemplateTails ==
    {<<>>, <<ViewLine, CloseLine>>, <<OpenerLine, ViewLine, CloseLine, CloseLine>>}

BodyTails == {<<>>, <<CloseLine>>}

\* well-formed body lines that precede the line under test
CorePool == {StateLine, ActionLine, ViewLine, <<>>, OpenerLine}

HeaderFiles == {<<h>> \o tail : h \in HeaderPool, tail \in HeaderTails}

\* a header, up to MaxBody well-formed lines, one line of DeclPool, a tail
BodyFiles ==
    {<<GoodHeader>> \o pre \o <<l>> \o tail :
        pre \in SeqUpTo(CorePool, MaxBody), l \in DeclPool, tail \in BodyTails}

TemplateFiles ==
    {<<GoodHeader, o>> \o body \o tail :
        o \in OpenerPool, body \in SeqUpTo(TplPool, MaxTpl), tail \in TemplateTails}

ScenarioFiles == {<<>>, Scenario1, Scenario2, Scenario3, Scenario4, Scenario5}

\* the characters of the initial values explored: both quotes, a letter, a digit
ValueChars == {"\"", "'", "a", "1"}

StateValuePrefix == <<"s","t","a","t","e"," ","x",":"," ","T"," ","=">>

\* a header and one state declaration, for every value of up to MaxValueLen
\* characters
ValueFiles ==
    {<<GoodHeader, StateValuePrefix \o v>> : v \in SeqUpTo(ValueChars, MaxValueLen)}

\* lines that may follow the closing brace of a module: a second module
\* header, a further declaration, a malformed line, a template opener
TrailPool == {GoodHeader, StateLine, Scenario5[2], OpenerLine}

\* complete modules that the trailing lines are appended to
ClosedModules == {<<GoodHeader, CloseLine>>, Scenario1, Scenario3}

\* a complete module followed by up to MaxTrail lines of TrailPool
TrailingFiles == {m \o t : m \in ClosedModules, t \in SeqUpTo(TrailPool, MaxTrail)}

Files ==
    HeaderFiles \cup BodyFiles \cup TemplateFiles \cup ValueFiles \cup ScenarioFiles
        \cup TrailingFiles

(***************************************************************************)
(* State of one parse.                                                     *)
(*   lines, current, line, column : the Parser's fields                    *)
(*   pc            : AwaitingHeader, InBody, InTemplate, Done or Failed    *)
(*   module        : the Module under construction, <<>> before the header *)
(*   blockDepth    : the body loop's depth counter                         *)
(*   templateLines, templateDepth : the locals of the template loop        *)
(*   templateStart : cursor index of the opening line of the template      *)
(*                   block being read                                      *)
(*   result        : what parse returns, module and error as <<>> or <<v>> *)
(***************************************************************************)
VARIABLES lines, current, line, column, pc, module, blockDepth,
          templateLines, templateDepth, templateStart, result

vars == <<lines, current, line, column, pc, module, blockDepth,
          templateLines, templateDepth, templateStart, result>>

Nil == <<>>

Init ==
    /\ lines \in Files
    /\ current = 0
    /\ line = 1
    /\ column = 1
    /\ pc = "AwaitingHeader"
    /\ module = Nil
    /\ blockDepth = 0
    /\ templateLines = <<>>
    /\ templateDepth = 0
    /\ templateStart = 0
    /\ result = [module |-> Nil, err |-> Nil]

(***************************************************************************)
(* Source buffer helpers.                                                  *)
(***************************************************************************)
hasMoreLines == current < Len(lines)

currentLine == IF current >= Len(lines) THEN <<>> ELSE lines[current + 1]

\* variant: the line counter is incremented but the cursor does not move
advance_CursorStays ==
    IF current < Len(lines)
    THEN current' = current /\ line' = line + 1 /\ column' = 1
    ELSE UNCHANGED <<current, line, column>>

\* variant: the cursor moves but the line counter is not incremented
advance_NoLineCount ==
    IF current < Len(lines)
    THEN current' = current + 1 /\ line' = line /\ column' = 1
    ELSE UNCHANGED <<current, line, column>>

advance ==
    IF current < Len(lines)
    THEN current' = current + 1 /\ line' = line + 1 /\ column' = 1
    ELSE UNCHANGED <<current, line, column>>

newError(message, context) ==
    [Line |-> line, Column |-> column, Message |-> message, Context |-> context]

\* variant: the module built so far is returned with the error
ReturnError_PartialModule(message, context) ==
    /\ pc' = "Failed"
    /\ result' = [module |-> module, err |-> <<newError(message, context)>>]
    /\ UNCHANGED <<lines, current, line, column, module, blockDepth,
                   templateLines, templateDepth, templateStart>>

\* an error leaves parse: the error alone is returned
ReturnError(message, context) ==
    /\ pc' = "Failed"
    /\ result' = [module |-> Nil, err |-> <<newError(message, context)>>]
    /\ UNCHANGED <<lines, current, line, column, module, blockDepth,
                   templateLines, templateDepth, templateStart>>

\* an element parser returned nil after changing the module
ElementDone(m) ==
    /\ module' = <<m>>
    /\ advance
    /\ UNCHANGED <<lines, pc, blockDepth, templateLines, templateDepth,
                   templateStart, result>>

(***************************************************************************)
(* parse: the empty-file test, then parseModule.                           *)
(***************************************************************************)
\* variant: no empty-file test, the header parser reports the missing line
ParseEmpty_HeaderError ==
    /\ pc = "AwaitingHeader"
    /\ Len(lines) = 0
    /\ ReturnError(MsgNoHeaderLine, <<>>)

ParseEmpty ==
    /\ pc = "AwaitingHeader"
    /\ Len(lines) = 0
    /\ ReturnError(MsgEmptyFile, <<>>)

ParseHeader ==
    /\ pc = "AwaitingHeader"
    /\ Len(lines) # 0
    /\ IF ~hasMoreLines
       THEN ReturnError(MsgNoHeaderLine, <<>>)
       ELSE LET r == parseModuleDeclaration(currentLine)
            IN  IF r.ok
                THEN /\ advance
                     /\ module' = <<[Name |-> r.value[1], State |-> <<>>, Views |-> <<>>,
                                     Actions |-> <<>>, Template |-> <<>>]>>
                     /\ blockDepth' = 1
                     /\ pc' = "InBody"
                     /\ UNCHANGED <<lines, templateLines, templateDepth,
                                    templateStart, result>>
                ELSE ReturnError(r.message, r.context)

(***************************************************************************)
(* One iteration of the body loop of parseModule, by the branch taken.     *)
(***************************************************************************)
InLoop == pc = "InBody" /\ hasMoreLines /\ blockDepth > 0

\* variant: running out of lines returns the module
BodyEnd_ReturnsModule ==
    /\ pc = "InBody"
    /\ ~(hasMoreLines /\ blockDepth > 0)
    /\ pc' = "Done"
    /\ result' = [module |-> module, err |-> Nil]
    /\ UNCHANGED <<lines, current, line, column, module, blockDepth,
                   templateLines, templateDepth, templateStart>>

\* the loop ends without a break: the depth decides the result
BodyEnd ==
    /\ pc = "InBody"
    /\ ~(hasMoreLines /\ blockDepth > 0)
    /\ IF blockDepth > 0
       THEN ReturnError(MsgUnclosedBlock, <<>>)
       ELSE /\ pc' = "Done"
            /\ result' = [module |-> module, err |-> Nil]
            /\ UNCHANGED <<lines, current, line, column, module, blockDepth,
                           templateLines, templateDepth, templateStart>>

\* variant: the closing line is skipped before the module is returned
BodyClose_Advances ==
    /\ InLoop
    /\ TrimSpace(currentLine) = BlockEnd
    /\ blockDepth' = blockDepth - 1
    /\ advance
    /\ IF blockDepth - 1 = 0
       THEN pc' = "Done" /\ result' = [module |-> module, err |-> Nil]
       ELSE UNCHANGED <<pc, result>>
    /\ UNCHANGED <<lines, module, templateLines, templateDepth, templateStart>>

\* variant: lines after the closing brace are an error
BodyClose_RejectsTrailing ==
    /\ InLoop
    /\ TrimSpace(currentLine) = BlockEnd
    /\ blockDepth' = blockDepth - 1
    /\ IF blockDepth - 1 = 0
       THEN IF current + 1 < Len(lines)
            THEN /\ pc' = "Failed"
                 /\ result' = [module |-> Nil,
                               err |-> <<newError(MsgUnexpectedToken,
                                                  TrimSpace(lines[current + 2]))>>]
                 /\ UNCHANGED <<current, line, column>>
            ELSE /\ pc' = "Done"
                 /\ result' = [module |-> module, err |-> Nil]
                 /\ UNCHANGED <<current, line, column>>
       ELSE /\ advance
            /\ UNCHANGED <<pc, result>>
    /\ UNCHANGED <<lines, module, templateLines, templateDepth, templateStart>>

\* a closing brace: the depth drops; at 0 the loop breaks and the module is
\* returned, otherwise parseModuleElement skips the line
BodyClose ==
    /\ InLoop
    /\ TrimSpace(currentLine) = BlockEnd
    /\ blockDepth' = blockDepth - 1
    /\ IF blockDepth - 1 = 0
       THEN /\ pc' = "Done"
            /\ result' = [module |-> module, err |-> Nil]
            /\ UNCHANGED <<current, line, column>>
       ELSE /\ advance
            /\ UNCHANGED <<pc, result>>
    /\ UNCHANGED <<lines, module, templateLines, templateDepth, templateStart>>

BodySkip ==
    /\ InLoop
    /\ TrimSpace(currentLine) # BlockEnd
    /\ parseModuleElement(currentLine) = "skip"
    /\ advance
    /\ UNCHANGED <<lines, pc, module, blockDepth, templateLines, templateDepth,
                   templateStart, result>>

\* variant: the new Property is put in front of the earlier ones
BodyState_Prepends ==
    /\ InLoop
    /\ TrimSpace(currentLine) # BlockEnd
    /\ parseModuleElement(currentLine) = "state"
    /\ LET r == parseState(currentLine)
       IN  IF r.ok
           THEN ElementDone([module[1] EXCEPT !.State = <<r.value[1]>> \o @])
           ELSE ReturnError(r.message, r.context)

BodyState ==
    /\ InLoop
    /\ TrimSpace(currentLine) # BlockEnd
    /\ parseModuleElement(currentLine) = "state"
    /\ LET r == parseState(currentLine)
       IN  IF r.ok
           THEN ElementDone([module[1] EXCEPT !.State = Append(@, r.value[1])])
           ELSE ReturnError(r.message, r.context)

BodyAction ==
    /\ InLoop
    /\ TrimSpace(currentLine) # BlockEnd
    /\ parseModuleElement(currentLine) = "action"
    /\ LET r == parseAction(currentLine)
       IN  IF r.ok
           THEN ElementDone([module[1] EXCEPT !.Actions = Append(@, r.value[1])])
           ELSE ReturnError(r.message, r.context)

BodyView ==
    /\ InLoop
    /\ TrimSpace(currentLine) # BlockEnd
    /\ parseModuleElement(currentLine) = "view"
    /\ LET r == parseView(currentLine)
       IN  IF r.ok
           THEN ElementDone([module[1] EXCEPT !.Views = Append(@, r.value[1])])
           ELSE ReturnError(r.message, r.context)

BodyUnexpected ==
    /\ InLoop
    /\ TrimSpace(currentLine) # BlockEnd
    /\ parseModuleElement(currentLine) = "unexpected"
    /\ ReturnError(MsgUnexpectedToken, TrimSpace(currentLine))

(***************************************************************************)
(* parseTemplate: the opening line, the loop over the block, the exit.     *)
(***************************************************************************)
TemplateOpen ==
    /\ InLoop
    /\ TrimSpace(currentLine) # BlockEnd
    /\ parseModuleElement(currentLine) = "template"
    /\ IF ~HasSuffix(TrimSpace(currentLine), BlockStart)
       THEN ReturnError(MsgExpectedBrace, TrimSpace(currentLine))
       ELSE /\ advance
            /\ templateStart' = current
            /\ templateLines' = <<>>
            /\ templateDepth' = 1
            /\ pc' = "InTemplate"
            /\ UNCHANGED <<lines, module, blockDepth, result>>

\* variant: the line that brings the depth to 0 is captured too
TemplateLine_KeepsCloser ==
    /\ pc = "InTemplate"
    /\ hasMoreLines /\ templateDepth > 0
    /\ templateDepth' = templateDepthAfter(templateDepth, currentLine)
    /\ templateLines' = IF templateDepth' >= 0
                        THEN Append(templateLines, currentLine)
                        ELSE templateLines
    /\ advance
    /\ UNCHANGED <<lines, pc, module, blockDepth, templateStart, result>>

TemplateLine ==
    /\ pc = "InTemplate"
    /\ hasMoreLines /\ templateDepth > 0
    /\ templateDepth' = templateDepthAfter(templateDepth, currentLine)
    /\ templateLines' = IF templateDepth' > 0
                        THEN Append(templateLines, currentLine)
                        ELSE templateLines
    /\ advance
    /\ UNCHANGED <<lines, pc, module, blockDepth, templateStart, result>>

TemplateExit ==
    /\ pc = "InTemplate"
    /\ ~(hasMoreLines /\ templateDepth > 0)
    /\ IF templateDepth > 0
       THEN ReturnError(MsgUnclosedTemplate, <<>>)
       ELSE /\ module' = <<[module[1] EXCEPT !.Template = templateLines]>>
            /\ pc' = "InBody"
            /\ UNCHANGED <<lines, current, line, column, blockDepth, templateLines,
                           templateDepth, templateStart, result>>

Next ==
    \/ ParseEmpty
    \/ ParseHeader
    \/ BodyEnd
    \/ BodyClose
    \/ BodySkip
    \/ BodyState
    \/ BodyAction
    \/ BodyView
    \/ BodyUnexpected
    \/ TemplateOpen
    \/ TemplateLine
    \/ TemplateExit

Spec == Init /\ [][Next]_vars

(***************************************************************************)
(* The same parse with the load step explicit: the parser is constructed   *)
(* without lines, loadFile reads them, and the run is not interrupted (a   *)
(* step that can be taken is taken).                                       *)
(***************************************************************************)
InitUnloaded ==
    /\ lines = <<>>
    /\ current = 0
    /\ line = 1
    /\ column = 1
    /\ pc = "Unloaded"
    /\ module = Nil
    /\ blockDepth = 0
    /\ templateLines = <<>>
    /\ templateDepth = 0
    /\ templateStart = 0
    /\ result = [module |-> Nil, err |-> Nil]

LoadFile ==
    /\ pc = "Unloaded"
    /\ lines' \in Files
    /\ pc' = "AwaitingHeader"
    /\ UNCHANGED <<current, line, column, module, blockDepth, templateLines,
                   templateDepth, templateStart, result>>

NextLoaded == LoadFile \/ Next

FairSpec == InitUnloaded /\ [][NextLoaded]_vars /\ WF_vars(NextLoaded)

(***************************************************************************)
(* Vocabulary of the properties: the error taxonomy, by message.           *)
(***************************************************************************)
ErrorKind(message) ==
    CASE message = MsgEmptyFile -> "EmptyFile"
      [] message \in {MsgNoHeaderLine, MsgEmptyModuleName, MsgInvalidModuleName,
                      MsgExpectedHeader} -> "MalformedHeader"
      [] message \in {MsgInvalidStateName, MsgInvalidActionName,
                      MsgInvalidViewName} -> "InvalidIdentifier"
      [] message = MsgMissingColon -> "MissingColon"
      [] message = MsgMissingType -> "EmptyType"
      [] message = MsgMissingActionName -> "MissingActionName"
      [] message = MsgMissingViewName -> "MissingViewName"
      [] message = MsgExpectedBrace -> "ExpectedBrace"
      [] message = MsgUnclosedTemplate -> "UnclosedTemplate"
      [] message = MsgUnclosedBlock -> "UnclosedBlock"
      [] message = MsgUnexpectedToken -> "UnexpectedToken"
      [] OTHER -> "Unknown"

\* the kind of the error parse returned, "none" while there is none
ErrKind == IF result.err = Nil THEN "none" ELSE ErrorKind(result.err[1].Message)

EmptyModule(name) ==
    [Name |-> name, State |-> <<>>, Views |-> <<>>, Actions |-> <<>>, Template |-> <<>>]

\* the text of a trimmed header line between `module ` and ` {`
HeaderBetween(t) == SubSeq(t, Len(KeywordModule) + 2, Len(t) - 2)

HeaderShape(t) == HasPrefix(t, KeywordModule \o SP) /\ HasSuffix(t, SP \o BlockStart)

HeaderAccepted(name) ==
    /\ pc' = "InBody"
    /\ current' = current + 1
    /\ blockDepth' = 1
    /\ module' = <<EmptyModule(name)>>
    /\ result' = result

HeaderRejected ==
    /\ pc' = "Failed"
    /\ ErrKind' = "MalformedHeader"
    /\ result'.err[1].Line = 1
    /\ result'.module = Nil
    /\ module' = Nil

C2_CloseEndsParse ==
    /\ [](/\ blockDepth \in {0, 1}
          /\ pc \in {"InBody", "InTemplate"} => blockDepth = 1
          /\ pc = "Done" => blockDepth = 0)
    /\ [][(pc = "InBody" /\ hasMoreLines /\ TrimSpace(currentLine) = BlockEnd) =>
            /\ blockDepth' = blockDepth - 1
            /\ blockDepth' = 0
            /\ pc' = "Done"
            /\ current' = current
            /\ result' = [module |-> module, err |-> Nil]
            /\ module' = module]_vars

\* the parse is Done on a closing line that lines still follow
C2_Witness ==
    /\ pc = "Done"
    /\ current + 1 < Len(lines)
    /\ TrimSpace(lines[current + 1]) = BlockEnd
    /\ result.module # Nil

(***************************************************************************)
(* C3: the parse fails with UnclosedBlock exactly when the header parsed   *)
(* and the input ran out in the body loop (all lines consumed without      *)
(* error, no body-level `}` seen); the result then carries no Module.      *)
(***************************************************************************)
C3_UnclosedBlock ==
    /\ [](/\ (ErrKind = "UnclosedBlock") <=>
                (pc = "Failed" /\ module # Nil /\ current = Len(lines) /\ templateDepth <= 0)
          /\ ErrKind = "UnclosedBlock" => result.module = Nil)
    /\ [][(pc = "InBody" /\ ~hasMoreLines) =>
            (pc' = "Failed" /\ ErrKind' = "UnclosedBlock")]_vars
    /\ [][ErrKind' = "UnclosedBlock" => (pc = "InBody" /\ ~hasMoreLines)]_vars

\* UnclosedBlock after a template block that closed on the last line
C3_Witness ==
    /\ ErrKind = "UnclosedBlock"
    /\ Len(lines) > 1
    /\ module[1].Template # <<>>

\* number of occurrences of c in the lines of a block
RECURSIVE CountIn(_, _)
CountIn(block, c) ==
    IF block = <<>> THEN 0 ELSE Count(Head(block), c) + CountIn(Tail(block), c)

(***************************************************************************)
(* C4: when a template block ends successfully and the lines strictly      *)
(* between its opening line and the line that closed it hold as many `{`   *)
(* as `}`, the Module's template is exactly those lines, raw and in order; *)
(* the closing line is consumed and not captured.                          *)
(***************************************************************************)
C4_TemplateCapture ==
    [][(pc = "InTemplate" /\ pc' = "InBody") =>
         LET body == SubSeq(lines, templateStart + 2, current - 1)
         IN  /\ parseModuleElement(lines[templateStart + 1]) = "template"
             /\ current > templateStart + 1
             /\ current' = current
             /\ CountIn(body, "{") = CountIn(body, "}") =>
                    module'[1].Template = body]_vars

\* the scenario `<div>{x}</div>` then `}` was captured as one line
C4_Witness ==
    /\ lines = Scenario3
    /\ pc = "Done"
    /\ result.module[1].Template = <<Scenario3[3]>>

(***************************************************************************)
(* C5 as stated: a template block ends successfully only with the template *)
(* depth at exactly 0, and running out of input with the depth above 0     *)
(* fails with UnclosedTemplate.                                            *)
(***************************************************************************)
C5_AsStated ==
    [][/\ (pc = "InTemplate" /\ pc' = "InBody") => templateDepth = 0
       /\ (pc = "InTemplate" /\ ~hasMoreLines /\ templateDepth > 0) =>
              (pc' = "Failed" /\ ErrKind' = "UnclosedTemplate")]_vars

\* a name with a character outside [A-Za-z0-9_], or starting with a digit
BadName(n) ==
    \/ \E i \in 1..Len(n) : n[i] \notin Letter \cup Digit \cup {"_"}
    \/ (Len(n) >= 1 /\ n[1] \in Digit)

\* position of the first c in s, 0 when there is none
FirstPos(s, c) ==
    IF \E i \in 1..Len(s) : s[i] = c
    THEN CHOOSE i \in 1..Len(s) : s[i] = c /\ \A j \in 1..(i - 1) : s[j] # c
    ELSE 0

\* the text of a trimmed line after its keyword and the space that follows
AfterKeyword(t, kw) == SubSeq(t, Len(kw) + 2, Len(t))

\* the declared name of a body line, <<n>>, or <<>> when the line declares none:
\* state: the text before the first `:`, trimmed; action: the first token
\* after the keyword; view: the text after the keyword, trimmed
DeclaredName(cur) ==
    LET t == TrimSpace(cur)
    IN  IF HasPrefix(t, KeywordState \o SP)
        THEN LET rest == AfterKeyword(t, KeywordState)
                 k == FirstPos(rest, ":")
             IN  IF k = 0 THEN <<>> ELSE <<TrimSpace(SubSeq(rest, 1, k - 1))>>
        ELSE IF HasPrefix(t, KeywordAction \o SP)
        THEN LET toks == Fields(AfterKeyword(t, KeywordAction))
             IN  IF toks = <<>> THEN <<>> ELSE <<toks[1]>>
        ELSE IF HasPrefix(t, KeywordView \o SP)
        THEN <<TrimSpace(AfterKeyword(t, KeywordView))>>
        ELSE <<>>

FailedWith(kind) ==
    /\ pc' = "Failed"
    /\ ErrKind' = kind
    /\ result'.module = Nil
    /\ module' = module
    /\ current' = current

(***************************************************************************)
(* C6: a body line that is a state, action or view declaration whose name  *)
(* (state: the text before the first `:`; action: the first token; view:   *)
(* the text after the keyword) holds a character outside [A-Za-z0-9_] or   *)
(* starts with a digit fails with InvalidIdentifier and adds nothing.      *)
(***************************************************************************)
C6_IdentifierRejection ==
    [][(pc = "InBody" /\ hasMoreLines /\ DeclaredName(currentLine) # <<>>
          /\ BadName(DeclaredName(currentLine)[1])) =>
         FailedWith("InvalidIdentifier")]_vars

\* a view whose name starts with a digit was rejected
C6_Witness ==
    /\ pc = "Failed"
    /\ ErrKind = "InvalidIdentifier"
    /\ HasPrefix(TrimSpace(currentLine), KeywordView \o SP)
    /\ DeclaredName(currentLine)[1][1] \in Digit

\* a body line whose first token is the keyword `action`
IsActionLine(cur) == Fields(cur) # <<>> /\ Fields(cur)[1] = KeywordAction

(***************************************************************************)
(* C7 as stated: an action line with no token after the keyword fails with *)
(* MissingActionName; one whose first token after the keyword is not an    *)
(* identifier fails with InvalidIdentifier; otherwise one Action of that   *)
(* name is appended and the cursor advances one line.                      *)
(***************************************************************************)
C7_AsStated ==
    [][(pc = "InBody" /\ hasMoreLines /\ IsActionLine(currentLine)) =>
         LET toks == Tail(Fields(currentLine))
         IN  IF toks = <<>> THEN FailedWith("MissingActionName")
             ELSE IF ~identifierRegex(toks[1]) THEN FailedWith("InvalidIdentifier")
             ELSE /\ module' = <<[module[1] EXCEPT !.Actions =
                                    Append(@, [Name |-> toks[1], Parameters |-> <<>>])]>>
                  /\ current' = current + 1
                  /\ pc' = "InBody"]_vars

\* what the state grammar yields for the text after `state `
StateGrammar(rest) ==
    LET k == FirstPos(rest, ":")
        name == TrimSpace(SubSeq(rest, 1, k - 1))
        rem == SubSeq(rest, k + 1, Len(rest))
        e == FirstPos(rem, "=")
        typ == TrimSpace(IF e = 0 THEN rem ELSE SubSeq(rem, 1, e - 1))
        val == IF e = 0 THEN <<>>
               ELSE parseStringValue(TrimSpace(SubSeq(rem, e + 1, Len(rem))))
    IN  IF k = 0 THEN [kind |-> "MissingColon", prop |-> <<>>]
        ELSE IF ~identifierRegex(name) THEN [kind |-> "InvalidIdentifier", prop |-> <<>>]
        ELSE IF typ = <<>> THEN [kind |-> "EmptyType", prop |-> <<>>]
        ELSE [kind |-> "none", prop |-> <<[Name |-> name, Type |-> typ, Value |-> val]>>]

(***************************************************************************)
(* C8: a `state ` line is split at its first `:` (none: MissingColon), the *)
(* trimmed left part must be an identifier (else InvalidIdentifier), the   *)
(* rest is split at its first `=` into type and value or is all type, an   *)
(* empty trimmed type is EmptyType; on success exactly one Property        *)
(* {name, type, normalized value or ""} is appended and the cursor         *)
(* advances one line.                                                      *)
(***************************************************************************)
C8_StateDeclaration ==
    [][(pc = "InBody" /\ hasMoreLines
          /\ HasPrefix(TrimSpace(currentLine), KeywordState \o SP)) =>
         LET g == StateGrammar(AfterKeyword(TrimSpace(currentLine), KeywordState))
         IN  IF g.kind # "none" THEN FailedWith(g.kind)
             ELSE /\ module' = <<[module[1] EXCEPT !.State = Append(@, g.prop[1])]>>
                  /\ current' = current + 1
                  /\ pc' = "InBody"
                  /\ result' = result]_vars

\* a property with a quoted value was appended with the quotes removed
C8_Witness ==
    /\ pc = "InBody"
    /\ current = 2
    /\ Len(module[1].State) = 1
    /\ module[1].State[1].Value # <<>>
    /\ Count(lines[2], "\"") = 2
    /\ Count(module[1].State[1].Value, "\"") = 0

ElementPrefixes ==
    {KeywordState \o SP, KeywordAction \o SP, KeywordView \o SP,
     KeywordTemplate \o SP \o BlockStart}

(***************************************************************************)
(* C9: a body line that is not blank, not a comment, not `}` and starts    *)
(* with none of `state `, `action `, `view `, `template {` fails with      *)
(* UnexpectedToken; a line starting with one of them goes to the parser of *)
(* that prefix alone (only that part of the Module can change) and never   *)
(* fails with UnexpectedToken.                                             *)
(***************************************************************************)
C9_Dispatch ==
    [][(pc = "InBody" /\ hasMoreLines) =>
         LET t == TrimSpace(currentLine)
             other == /\ t # <<>>
                      /\ ~HasPrefix(t, <<"/", "/">>)
                      /\ t # BlockEnd
                      /\ \A p \in ElementPrefixes : ~HasPrefix(t, p)
         IN  /\ other => FailedWith("UnexpectedToken")
             /\ ~other => ErrKind' # "UnexpectedToken"
             /\ HasPrefix(t, KeywordState \o SP) =>
                  /\ ErrKind' \in {"none", "MissingColon", "InvalidIdentifier", "EmptyType"}
                  /\ pc' = "InBody" =>
                       module' = <<[module[1] EXCEPT !.State = module'[1].State]>>
                       /\ Len(module'[1].State) = Len(module[1].State) + 1
             /\ HasPrefix(t, KeywordAction \o SP) =>
                  /\ ErrKind' \in {"none", "MissingActionName", "InvalidIdentifier"}
                  /\ pc' = "InBody" =>
                       module' = <<[module[1] EXCEPT !.Actions = module'[1].Actions]>>
                       /\ Len(module'[1].Actions) = Len(module[1].Actions) + 1
             /\ HasPrefix(t, KeywordView \o SP) =>
                  /\ ErrKind' \in {"none", "MissingViewName", "InvalidIdentifier"}
                  /\ pc' = "InBody" =>
                       module' = <<[module[1] EXCEPT !.Views = module'[1].Views]>>
                       /\ Len(module'[1].Views) = Len(module[1].Views) + 1
             /\ HasPrefix(t, KeywordTemplate \o SP \o BlockStart) =>
                  /\ ErrKind' \in {"none", "ExpectedBrace"}
                  /\ pc' \in {"InTemplate", "Failed"}
                  /\ module' = module]_vars

\* the scenario `foo bar` failed with UnexpectedToken, the line as context
C9_Witness ==
    /\ lines = Scenario5
    /\ pc = "Failed"
    /\ ErrKind = "UnexpectedToken"
    /\ result.err[1].Context = Scenario5[2]

(***************************************************************************)
(* C10: the step that raises an error enters Failed with the error alone   *)
(* as the result (no Module) and without consuming a line; nothing changes *)
(* once Failed, and an error is set only in Failed.                        *)
(***************************************************************************)
C10_ErrorPropagation ==
    /\ []((pc = "Failed") <=> (result.err # Nil))
    /\ [][/\ pc # "Failed"
          /\ pc' = "Failed" =>
               /\ result'.module = Nil
               /\ result'.err # Nil
               /\ current' = current
               /\ line' = line]_vars

\* an error after part of the Module was built, with lines left unread
C10_Witness ==
    /\ pc = "Failed"
    /\ module # Nil
    /\ Len(module[1].State) + Len(module[1].Actions) + Len(module[1].Views) > 0
    /\ current + 1 < Len(lines)
    /\ result.module = Nil

(***************************************************************************)
(* C11: in every state 0 <= current <= number of lines, the line counter   *)
(* is current + 1 and the column is 1; hence every error carries column 1  *)
(* and the 1-based number of the line under the cursor when it was raised. *)
(***************************************************************************)
C11_PositionInvariant ==
    /\ 0 <= current /\ current <= Len(lines)
    /\ line = current + 1
    /\ column = 1
    /\ result.err # Nil =>
         /\ result.err[1].Column = 1
         /\ result.err[1].Line >= 1
         /\ result.err[1].Line = current + 1

\* an error raised on the third line or later carries that line's number
C11_Witness ==
    /\ pc = "Failed"
    /\ current >= 2
    /\ current < Len(lines)
    /\ result.err[1].Line = current + 1

(***************************************************************************)
(* C12 as stated: every error carries as context the raw, untrimmed text   *)
(* of the line under the cursor when it was raised.                        *)
(***************************************************************************)
C12_AsStated == result.err # Nil => result.err[1].Context = currentLine

(***************************************************************************)
(* C12 amended: the context of an error is taken from the line under the   *)
(* cursor with surrounding whitespace trimmed: the trimmed line for a      *)
(* header of the wrong shape or with an empty name, MissingColon,          *)
(* EmptyType, ExpectedBrace and UnexpectedToken; the trimmed name alone    *)
(* for an invalid module name and for InvalidIdentifier; and the empty     *)
(* string for EmptyFile, UnclosedTemplate and UnclosedBlock, raised with   *)
(* the cursor past the last line.                                          *)
(***************************************************************************)
C12_ErrorContext ==
    result.err # Nil =>
        LET e == result.err[1]
            t == TrimSpace(currentLine)
        IN  /\ ErrKind \in {"EmptyFile", "UnclosedTemplate", "UnclosedBlock"} =>
                 (e.Context = <<>> /\ current = Len(lines))
            /\ ErrKind \in {"MissingColon", "EmptyType", "ExpectedBrace",
                            "UnexpectedToken"} =>
                 (e.Context = t /\ current < Len(lines))
            /\ ErrKind = "InvalidIdentifier" =>
                 e.Context = DeclaredName(currentLine)[1]
            /\ ErrKind = "MalformedHeader" =>
                 e.Context = IF e.Message = MsgInvalidModuleName
                             THEN TrimSpace(HeaderBetween(t))
                             ELSE t
            /\ ErrKind \in {"EmptyFile", "UnclosedTemplate", "UnclosedBlock",
                            "MissingColon", "EmptyType", "ExpectedBrace",
                            "UnexpectedToken", "InvalidIdentifier", "MalformedHeader"}

\* an error whose context is the trimmed line, not the raw one
C12_Witness ==
    /\ pc = "Failed"
    /\ ErrKind = "UnexpectedToken"
    /\ result.err[1].Context # currentLine
    /\ result.err[1].Context = TrimSpace(currentLine)

(***************************************************************************)
(* C13: a file of zero lines fails with EmptyFile at line 1, column 1; it  *)
(* never yields MalformedHeader and never a Module.                        *)
(***************************************************************************)
C13_EmptyFile ==
    /\ [](Len(lines) = 0 =>
            /\ pc \in {"AwaitingHeader", "Failed"}
            /\ module = Nil
            /\ result.module = Nil
            /\ pc = "Failed" =>
                 /\ ErrKind = "EmptyFile"
                 /\ result.err[1].Line = 1
                 /\ result.err[1].Column = 1)
    /\ [][(pc = "AwaitingHeader" /\ Len(lines) = 0) => pc' = "Failed"]_vars

\* the empty file was rejected
C13_Witness ==
    /\ lines = <<>>
    /\ pc = "Failed"
    /\ ErrKind = "EmptyFile"

\* the indices among i..n of the lines of ls that lie outside template
\* blocks; d is the depth of the template block open at line i, 0 for none
RECURSIVE OutsideTemplates(_, _, _, _, _)
OutsideTemplates(ls, i, n, d, acc) ==
    IF i > n THEN acc
    ELSE IF d = 0
         THEN IF HasPrefix(TrimSpace(ls[i]), KeywordTemplate \o SP \o BlockStart)
              THEN OutsideTemplates(ls, i + 1, n, 1, acc)
              ELSE OutsideTemplates(ls, i + 1, n, 0, Append(acc, i))
         ELSE LET e == d + Count(ls[i], "{") - Count(ls[i], "}")
              IN  OutsideTemplates(ls, i + 1, n, IF e > 0 THEN e ELSE 0, acc)

\* the trimmed declaration lines with keyword kw between the header and
\* line n, outside template blocks, in source order
Declarations(kw, n) ==
    LET idx == OutsideTemplates(lines, 2, n, 0, <<>>)
        all == [k \in 1..Len(idx) |-> TrimSpace(lines[idx[k]])]
    IN  SelectSeq(all, LAMBDA t : HasPrefix(t, kw \o SP))

(***************************************************************************)
(* C14: a successful parse returns, in source order, exactly one Property, *)
(* Action and View per state, action and view line between the header and *)
(* the closing brace and outside template blocks; lines inside a template  *)
(* block add none.                                                         *)
(***************************************************************************)
C14_OrderAndCompleteness ==
    pc = "Done" =>
        LET m == result.module[1]
            st == Declarations(KeywordState, current)
            ac == Declarations(KeywordAction, current)
            vw == Declarations(KeywordView, current)
        IN  /\ m.Name = TrimSpace(HeaderBetween(TrimSpace(lines[1])))
            /\ Len(m.State) = Len(st)
            /\ \A k \in 1..Len(st) :
                 <<m.State[k]>> = StateGrammar(AfterKeyword(st[k], KeywordState)).prop
            /\ Len(m.Actions) = Len(ac)
            /\ \A k \in 1..Len(ac) :
                 m.Actions[k] = [Name |-> Fields(AfterKeyword(ac[k], KeywordAction))[1],
                                 Parameters |-> <<>>]
            /\ Len(m.Views) = Len(vw)
            /\ \A k \in 1..Len(vw) :
                 m.Views[k] = [Name |-> TrimSpace(AfterKeyword(vw[k], KeywordView)),
                               Content |-> <<>>]

\* the scenario of one state, one action and one view
C14_Witness ==
    /\ lines = Scenario1
    /\ pc = "Done"
    /\ result.module[1] =
         [Name |-> <<"A","p","p">>,
          State |-> <<[Name |-> <<"c","o","u","n","t">>, Type |-> <<"I","n","t">>,
                       Value |-> <<"0">>]>>,
          Actions |-> <<[Name |-> <<"l","o","g","i","n">>, Parameters |-> <<>>]>>,
          Views |-> <<[Name |-> <<"H","o","m","e">>, Content |-> <<>>]>>,
          Template |-> <<>>]

IsPrefix(a, b) == Len(a) <= Len(b) /\ SubSeq(b, 1, Len(a)) = a

(***************************************************************************)
(* C15 as stated: after every step each sequence of the Module (state,     *)
(* views, actions, template) has its previous value as a prefix; the lines *)
(* of an earlier template block survive a later template block.            *)
(***************************************************************************)
C15_AsStated ==
    [][(module # Nil /\ module' # Nil) =>
         /\ IsPrefix(module[1].State, module'[1].State)
         /\ IsPrefix(module[1].Views, module'[1].Views)
         /\ IsPrefix(module[1].Actions, module'[1].Actions)
         /\ IsPrefix(module[1].Template, module'[1].Template)]_vars

\* a body line whose first token is the keyword `template`
IsTemplateLine(cur) == Fields(cur) # <<>> /\ Fields(cur)[1] = KeywordTemplate

(***************************************************************************)
(* C16 as stated: every body line whose first token is `template` and that *)
(* does not end with `{` fails with ExpectedBrace.                         *)
(***************************************************************************)
C16_AsStated ==
    [][(pc = "InBody" /\ hasMoreLines /\ IsTemplateLine(currentLine)
          /\ ~HasSuffix(TrimSpace(currentLine), BlockStart)) =>
         FailedWith("ExpectedBrace")]_vars

\* s is non-empty, starts with a character of first and continues with
\* letters, digits and underscores
MatchesName(s, first) ==
    /\ s # <<>>
    /\ s[1] \in first
    /\ \A i \in 2..Len(s) : s[i] \in Lower \cup Upper \cup Digit \cup {"_"}

ModuleWellFormed(m) ==
    /\ MatchesName(m.Name, Lower \cup Upper)
    /\ \A k \in 1..Len(m.State) :
         /\ MatchesName(m.State[k].Name, Lower \cup Upper \cup {"_"})
         /\ m.State[k].Type # <<>>
    /\ \A k \in 1..Len(m.Views) :
         /\ MatchesName(m.Views[k].Name, Lower \cup Upper \cup {"_"})
         /\ m.Views[k].Content = <<>>
    /\ \A k \in 1..Len(m.Actions) :
         /\ MatchesName(m.Actions[k].Name, Lower \cup Upper \cup {"_"})
         /\ m.Actions[k].Parameters = <<>>

(***************************************************************************)
(* C17: the Module under construction and the Module returned always have  *)
(* a name matching ^[A-Za-z][A-Za-z0-9_]*$, Properties with a name         *)
(* matching ^[A-Za-z_][A-Za-z0-9_]*$ and a non-empty type, Views and       *)
(* Actions with such a name, empty View content and empty Action           *)
(* parameters.                                                             *)
(***************************************************************************)
C17_DataModel ==
    /\ module # Nil => ModuleWellFormed(module[1])
    /\ result.module # Nil => ModuleWellFormed(result.module[1])
    /\ pc \in {"InBody", "InTemplate", "Done"} => module # Nil
    /\ pc = "Done" => result.module # Nil

\* a Module was returned with a Property, a View and an Action in it
C17_Witness ==
    /\ pc = "Done"
    /\ result.module # Nil
    /\ Len(result.module[1].State) > 0
    /\ Len(result.module[1].Views) > 0
    /\ Len(result.module[1].Actions) > 0

\* a line that is blank after trimming or whose trimmed text starts with //
BlankOrComment(cur) ==
    \/ \A i \in 1..Len(cur) : cur[i] \in Space
    \/ LET t == TrimSpace(cur) IN Len(t) >= 2 /\ t[1] = "/" /\ t[2] = "/"

(***************************************************************************)
(* C18: in InBody a blank line or a `//` comment line only advances the    *)
(* cursor by one line: the Module and the body depth are unchanged and no  *)
(* error is raised.                                                        *)
(***************************************************************************)
C18_SkipBlankAndComment ==
    [][(pc = "InBody" /\ hasMoreLines /\ BlankOrComment(currentLine)) =>
         /\ current' = current + 1
         /\ line' = line + 1
         /\ module' = module
         /\ blockDepth' = blockDepth
         /\ pc' = "InBody"
         /\ result' = result
         /\ templateLines' = templateLines]_vars

\* a comment line after a declaration was skipped, the Module kept
C18_Witness ==
    /\ pc = "InBody"
    /\ current = 3
    /\ HasPrefix(TrimSpace(lines[3]), <<"/", "/">>)
    /\ Len(module[1].State) = 1
    /\ result.err = Nil

\* the value text of a trimmed state line: what follows the first `=` after
\* the first `:`, trimmed; <<>> when there is no `=`
RawValue(t) ==
    LET rest == AfterKeyword(t, KeywordState)
        afterColon == SubSeq(rest, FirstPos(rest, ":") + 1, Len(rest))
        e == FirstPos(afterColon, "=")
    IN  IF e = 0 THEN <<>> ELSE TrimSpace(SubSeq(afterColon, e + 1, Len(afterColon)))

\* v without its first and last character when it has at least two
\* characters and both are `"` or both are `'`, else v
Unquoted(v) ==
    IF Len(v) >= 2 /\ v[1] = v[Len(v)] /\ v[1] \in {"\"", "'"}
    THEN SubSeq(v, 2, Len(v) - 1)
    ELSE v

(***************************************************************************)
(* C19: the value stored for a state declaration is its value text with    *)
(* the first and last characters removed when the text has length >= 2 and *)
(* both are `"` or both are `'`, and the text unchanged otherwise (a lone  *)
(* quote, mismatched quotes, numbers, anything else); only one layer of    *)
(* quotes is removed and no value makes the declaration fail.              *)
(***************************************************************************)
C19_NormalizeValue ==
    [][(pc = "InBody" /\ hasMoreLines
          /\ HasPrefix(TrimSpace(currentLine), KeywordState \o SP)) =>
         /\ HasPrefix(currentLine, StateValuePrefix) => pc' = "InBody"
         /\ pc' = "InBody" =>
              /\ Len(module'[1].State) = Len(module[1].State) + 1
              /\ module'[1].State[Len(module'[1].State)].Value =
                   Unquoted(RawValue(TrimSpace(currentLine)))]_vars

\* the value `"'"` was stored as `'`: one layer removed, the inner quote kept
C19_Witness ==
    /\ pc = "InBody"
    /\ current = 2
    /\ lines[2] = StateValuePrefix \o <<"\"", "'", "\"">>
    /\ module[1].State[1].Value = <<"'">>

(***************************************************************************)
(* C20: every parse reaches Done or Failed; every step of the body loop    *)
(* and of the template loop moves the cursor forward by one line or ends   *)
(* its loop (the template loop by returning to the body, the body loop by  *)
(* ending the parse), and the cursor never moves back, so no line is       *)
(* examined twice and the steps are bounded by the number of lines.        *)
(***************************************************************************)
C20_Termination ==
    /\ <>(pc \in {"Done", "Failed"})
    /\ [][pc # "Unloaded" =>
            /\ current' >= current
            /\ \/ current' = current + 1
               \/ pc' \in {"Done", "Failed"}
               \/ (pc = "InTemplate" /\ pc' = "InBody")
            /\ current' <= Len(lines)]_vars

\* a parse that went through a template block and declarations ended with
\* the cursor on the last line
C20_Witness ==
    /\ pc = "Done"
    /\ current + 1 = Len(lines)
    /\ current >= 5
    /\ module[1].Template # <<>>

\* the lines of the last template block of ls that ended, <<>> when there is
\* none: i is the line looked at, d the depth of the block open at line i
\* (0 for none), open the lines kept of that block, last the result so far
RECURSIVE LastTemplate(_, _, _, _, _)
LastTemplate(ls, i, d, open, last) ==
    IF i > Len(ls) THEN last
    ELSE IF d = 0
         THEN IF HasPrefix(TrimSpace(ls[i]), KeywordTemplate \o SP \o BlockStart)
              THEN LastTemplate(ls, i + 1, 1, <<>>, last)
              ELSE LastTemplate(ls, i + 1, 0, <<>>, last)
         ELSE LET e == d + Count(ls[i], "{") - Count(ls[i], "}")
              IN  IF e > 0
                  THEN LastTemplate(ls, i + 1, e, Append(open, ls[i]), last)
                  ELSE LastTemplate(ls, i + 1, 0, <<>>, open)

\* the trimmed declaration lines of p with keyword kw, after the header and
\* outside template blocks, in order
DeclarationsOf(p, kw) ==
    LET idx == OutsideTemplates(p, 2, Len(p), 0, <<>>)
        all == [k \in 1..Len(idx) |-> TrimSpace(p[idx[k]])]
    IN  SelectSeq(all, LAMBDA t : HasPrefix(t, kw \o SP))

\* the Module that the lines p alone determine; no line outside p is used
ModuleOf(p) ==
    LET st == DeclarationsOf(p, KeywordState)
        ac == DeclarationsOf(p, KeywordAction)
        vw == DeclarationsOf(p, KeywordView)
    IN  [Name |-> TrimSpace(HeaderBetween(TrimSpace(p[1]))),
         State |-> [k \in 1..Len(st) |->
                      StateGrammar(AfterKeyword(st[k], KeywordState)).prop[1]],
         Actions |-> [k \in 1..Len(ac) |->
                        [Name |-> Fields(AfterKeyword(ac[k], KeywordAction))[1],
                         Parameters |-> <<>>]],
         Views |-> [k \in 1..Len(vw) |->
                      [Name |-> TrimSpace(AfterKeyword(vw[k], KeywordView)),
                       Content |-> <<>>]],
         Template |-> LastTemplate(p, 2, 0, <<>>, <<>>)]

\* the last line of p is a closing brace outside template blocks and the
\* first such line of p
ClosedAtEnd(p) ==
    LET idx == OutsideTemplates(p, 2, Len(p), 0, <<>>)
    IN  /\ Len(p) >= 2
        /\ \A k \in 1..Len(idx) : TrimSpace(p[idx[k]]) = BlockEnd <=> idx[k] = Len(p)
        /\ \E k \in 1..Len(idx) : idx[k] = Len(p)

(***************************************************************************)
(* C21: the body-level closing brace ends the parse whatever follows it:   *)
(* on that line the parse is Done with no error and with the cursor still  *)
(* on it, no step is taken after Done, and the Module returned is the one  *)
(* determined by the lines up to and including the closing line alone, so  *)
(* two inputs that agree up to that line return the same Module.           *)
(***************************************************************************)
C21_TrailingIgnored ==
    /\ [](pc = "Done" =>
            LET p == SubSeq(lines, 1, current + 1)
            IN  /\ ClosedAtEnd(p)
                /\ result = [module |-> <<ModuleOf(p)>>, err |-> Nil])
    /\ [][/\ pc # "Done"
          /\ (pc = "InBody" /\ hasMoreLines /\ TrimSpace(currentLine) = BlockEnd) =>
                (pc' = "Done" /\ current' = current /\ result'.err = Nil)]_vars

\* a module with a state, an action and a view was returned although a
\* second module header and a malformed line follow its closing brace
C21_Witness ==
    /\ pc = "Done"
    /\ lines = Scenario1 \o <<GoodHeader, Scenario5[2]>>
    /\ current + 1 = Len(Scenario1)
    /\ result.err = Nil
    /\ result.module = <<ModuleOf(Scenario1)>>
    /\ Len(result.module[1].State) = 1

====
